---- MODULE Spec2Model ----
(***************************************************************************)
(* Model of the control-channel handlers of handle_misc.go: the secure     *)
(* transport negotiation (AUTH, PROT, PBSZ), feature and option discovery  *)
(* (FEAT, OPTS), the small informational handlers, SITE dispatch and the   *)
(* generic hashing subsystem (HASH, XCRC, MD5, XSHA1, XSHA256, XSHA512 and *)
(* computeHashForFile).                                                    *)
(*                                                                         *)
(* Strings of the program are sequences of one-character strings, so that  *)
(* strings.SplitN, strings.ToUpper, strings.EqualFold and strconv.ParseInt *)
(* are computed as the library computes them.                              *)
(***************************************************************************)
EXTENDS Integers, Sequences, FiniteSets, TLC

VARIABLES
    settings,      \* c.server.settings: the server-wide toggles
    driverExt,     \* whether c.driver also implements ClientDriverExtentionFileTransfer
    c,             \* the clientHandler: conn, reader, writer, controlTLS, transferTLS,
                   \* selectedHashAlgo, clnt, user, param, closed
    command,       \* the verb of the command being answered ("" while awaiting one)
    readVia,       \* the reader binding through which that command line was read
    out,           \* the lines written for that command
    ret,           \* what its handler returned
    delegated,     \* the handlers of other files it forwarded to
    tlsAnswer,     \* what GetTLSConfig answered to that command
    hashIn,        \* the driver's file and faults seen by that command
    hashRun,       \* what computeHashForFile did for that command
    lastOptsName,  \* the name accepted by the latest successful OPTS HASH <name>
    server         \* the server as several sessions running at once see it: its
                   \* settings, the algorithm set, and each session's
                   \* clientHandler with the point its handler has reached

vars == <<settings, driverExt, c, command, readVia, out, ret, delegated,
          tlsAnswer, hashIn, hashRun, lastOptsName, server>>

-----
(* Bounds *)

\* the longest file the driver holds
MaxFileLen == 3

\* the number of TLS wrappers a run may stack before AUTH is no longer explored
MaxWrap == 2

-----------------------------------------------------------------------------
(* Strings *)

LowerChars == <<"a","b","c","d","e","f","g","h","i","j","k","l","m",
                "n","o","p","q","r","s","t","u","v","w","x","y","z">>

UpperChars == <<"A","B","C","D","E","F","G","H","I","J","K","L","M",
                "N","O","P","Q","R","S","T","U","V","W","X","Y","Z">>

DigitChars == <<"0","1","2","3","4","5","6","7","8","9">>

\* runes outside ASCII, each written as its code point: the two whose upper
\* case is an ASCII capital, the one besides "k" that folds to "K", and a
\* letter pair without an ASCII form
LongS == "U+017F"

DotlessI == "U+0131"

KelvinSign == "U+212A"

SmallEAcute == "U+00E9"

CapitalEAcute == "U+00C9"

\* unicode.ToUpper of one rune
UpperChar(ch) ==
    IF \E i \in 1..Len(LowerChars) : LowerChars[i] = ch
    THEN UpperChars[CHOOSE i \in 1..Len(LowerChars) : LowerChars[i] = ch]
    ELSE IF ch = LongS THEN "S"
    ELSE IF ch = DotlessI THEN "I"
    ELSE IF ch = SmallEAcute THEN CapitalEAcute
    ELSE ch

\* strings.ToUpper
ToUpper(s) == [i \in 1..Len(s) |-> UpperChar(s[i])]

\* the representative of the orbit of one rune under unicode.SimpleFold: the
\* long s folds with "s" and "S", the Kelvin sign with "k" and "K"; the dotless
\* i is in the orbit of "I" and "i" for no starting rune EqualFold tries
FoldChar(ch) ==
    IF \E i \in 1..Len(LowerChars) : LowerChars[i] = ch
    THEN UpperChars[CHOOSE i \in 1..Len(LowerChars) : LowerChars[i] = ch]
    ELSE IF ch = LongS THEN "S"
    ELSE IF ch = KelvinSign THEN "K"
    ELSE IF ch = SmallEAcute THEN CapitalEAcute
    ELSE ch

\* strings.EqualFold: rune by rune under simple case folding
EqualFold(s, t) ==
    /\ Len(s) = Len(t)
    /\ \A i \in 1..Len(s) : FoldChar(s[i]) = FoldChar(t[i])

\* strings.Index(s, " "), 1-based, 0 when absent
IndexSpace(s) ==
    IF \E i \in 1..Len(s) : s[i] = " "
    THEN CHOOSE i \in 1..Len(s) : s[i] = " " /\ \A j \in 1..(i-1) : s[j] # " "
    ELSE 0

\* strings.SplitN(s, " ", n) for n > 0: at most n substrings, the last one unsplit
RECURSIVE SplitN(_, _)
SplitN(s, n) ==
    IF n <= 1 \/ IndexSpace(s) = 0
    THEN <<s>>
    ELSE <<SubSeq(s, 1, IndexSpace(s) - 1)>>
         \o SplitN(SubSeq(s, IndexSpace(s) + 1, Len(s)), n - 1)

IsDigit(ch) == \E i \in 1..Len(DigitChars) : DigitChars[i] = ch

DigitVal(ch) == (CHOOSE i \in 1..Len(DigitChars) : DigitChars[i] = ch) - 1

RECURSIVE DecimalVal(_)
DecimalVal(s) ==
    IF s = <<>> THEN 0
    ELSE 10 * DecimalVal(SubSeq(s, 1, Len(s) - 1)) + DigitVal(s[Len(s)])

\* the digits of 1<<63, the magnitude no positive int64 reaches
Int64Cutoff ==
    <<"9","2","2","3","3","7","2","0","3","6","8","5","4","7","7","5","8","0","8">>

RECURSIVE StripZeros(_)
StripZeros(digits) ==
    IF digits # <<>> /\ Head(digits) = "0" THEN StripZeros(Tail(digits)) ELSE digits

\* a < b for digit strings of one length
RECURSIVE DigitsLess(_, _)
DigitsLess(a, b) ==
    IF a = <<>> THEN FALSE
    ELSE IF Head(a) # Head(b) THEN DigitVal(Head(a)) < DigitVal(Head(b))
    ELSE DigitsLess(Tail(a), Tail(b))

\* the magnitude is within int64: below 1<<63, or equal to it under a minus sign
InInt64(digits, negative) ==
    LET d == StripZeros(digits)
    IN  \/ Len(d) < Len(Int64Cutoff)
        \/ Len(d) = Len(Int64Cutoff) /\ DigitsLess(d, Int64Cutoff)
        \/ negative /\ d = Int64Cutoff

\* strconv.ParseInt(s, 10, 64): an optional sign and at least one decimal
\* digit is a number; a number outside int64 is a range error
ParseInt(s) ==
    LET signed == s # <<>> /\ s[1] \in {"+", "-"}
        digits == IF signed THEN Tail(s) ELSE s
    IN  IF digits = <<>> \/ \E i \in 1..Len(digits) : ~IsDigit(digits[i])
        THEN [ok |-> FALSE, val |-> 0]
        ELSE IF ~InInt64(digits, signed /\ s[1] = "-")
        THEN [ok |-> FALSE, val |-> 0]
        ELSE [ok |-> TRUE,
              val |-> IF signed /\ s[1] = "-" THEN 0 - DecimalVal(digits)
                                               ELSE DecimalVal(digits)]

sEmpty  == <<>>
sSpace  == <<" ">>
sUTF8   == <<"U","T","F","8">>
sHASH   == <<"H","A","S","H">>
sCRC32  == <<"C","R","C","3","2">>
sMD5    == <<"M","D","5">>
sSHA1   == <<"S","H","A","-","1">>
sSHA256 == <<"S","H","A","-","2","5","6">>
sSHA512 == <<"S","H","A","-","5","1","2">>
sCHMOD  == <<"C","H","M","O","D">>
sCHOWN  == <<"C","H","O","W","N">>
sSYMLINK == <<"S","Y","M","L","I","N","K">>

-----------------------------------------------------------------------------
(* The algorithm set *)

AlgoSet == {"HASHAlgoCRC32", "HASHAlgoMD5", "HASHAlgoSHA1", "HASHAlgoSHA256", "HASHAlgoSHA512"}

\* getHashMapping(): protocol-visible name -> algorithm
getHashMapping ==
    (sCRC32 :> "HASHAlgoCRC32") @@ (sMD5 :> "HASHAlgoMD5") @@ (sSHA1 :> "HASHAlgoSHA1")
    @@ (sSHA256 :> "HASHAlgoSHA256") @@ (sSHA512 :> "HASHAlgoSHA512")

\* for k, v := range hashMapping { if v == algo { name = k } }: the names the
\* loop can end with ("" when no key maps to algo; map order is unspecified)
ReverseLookup(algo) ==
    IF \E k \in DOMAIN getHashMapping : getHashMapping[k] = algo
    THEN {k \in DOMAIN getHashMapping : getHashMapping[k] = algo}
    ELSE {sEmpty}

-----------------------------------------------------------------------------
(* Replies *)

NoDigest == [algo |-> "none", bytes |-> <<>>]

\* one line on the wire, written through the buffered writer bound to w; form is
\* "final" for "<code> <text>", "open" for "<code>-<text>" and "raw" for a line
\* without a status code
WireLine(w, form, code, tag, arg, digest) ==
    [form |-> form, code |-> code, tag |-> tag, arg |-> arg, digest |-> digest, via |-> w]

\* c.writeLine(line), for a line the handler formats itself
writeLine(w, form, code, tag, arg) == WireLine(w, form, code, tag, arg, NoDigest)

\* c.writeMessage(code, message): "<code> <message>", written and flushed at once
writeMessage(w, code, tag, arg) == WireLine(w, "final", code, tag, arg, NoDigest)

\* c.writeMessage(code, message) for a message that embeds a digest
writeDigestMessage(w, code, tag, arg, digest) == WireLine(w, "final", code, tag, arg, digest)

\* c.multilineAnswer(code, message): the opening line now, the closing line deferred
multilineAnswerOpen(w, code, tag) == WireLine(w, "open", code, tag, sEmpty, NoDigest)

multilineAnswerClose(w, code) == WireLine(w, "final", code, "End", sEmpty, NoDigest)

\* The number of complete protocol replies a peer parses out of the lines, or
\* -1 when the lines are not a sequence of complete replies: a "final" line
\* outside a block is a single-line reply, an "open" line starts a block that
\* the next "final" line with the same code closes.
RECURSIVE ParseReplies(_, _)
ParseReplies(lines, openCode) ==
    IF lines = <<>> THEN (IF openCode = "" THEN 0 ELSE -1)
    ELSE LET l == Head(lines)
             rest == Tail(lines)
         IN  IF openCode = ""
             THEN IF l.form = "final"
                  THEN (IF ParseReplies(rest, "") < 0 THEN -1 ELSE 1 + ParseReplies(rest, ""))
                  ELSE IF l.form = "open" THEN ParseReplies(rest, l.code)
                  ELSE -1
             ELSE IF l.form = "final" /\ l.code = openCode
                  THEN (IF ParseReplies(rest, "") < 0 THEN -1 ELSE 1 + ParseReplies(rest, ""))
                  ELSE IF l.form = "final" \/ l.form = "open" THEN -1
                  ELSE ParseReplies(rest, openCode)

ReplyCount(lines) == ParseReplies(lines, "")

-----------------------------------------------------------------------------
(* The session *)

\* tls.Server(conn, config): one more TLS wrapper around the same connection
tlsServer(conn, config) == conn + 1

\* bufio.NewReader(conn) and bufio.NewWriter(conn): a fresh buffer bound to conn
NewReader(conn) == conn

NewWriter(conn) == conn

\* c.reader = nil
NilReader == 0 - 1

\* the algorithm a new clientHandler starts with
DefaultHashAlgo == "HASHAlgoSHA256"

NoName == <<"-">>

NoTLSAnswer == [config |-> "none", err |-> "none"]

\* what GetTLSConfig() can return: a configuration or nil, and an error or nil
TLSAnswers == [config : {"tlsConfig", "nilConfig"}, err : {"nil", "err"}]

NoHashIn == [stat |-> "none", size |-> 0, content |-> <<>>, fault |-> [kind |-> "none", at |-> 0]]

NoRun == [called |-> FALSE, start |-> 0, end |-> 0, via |-> "none", opened |-> 0,
          closed |-> 0, seeks |-> 0, fed |-> <<>>, err |-> "nil", digest |-> NoDigest]

\* what a handler leaves behind: the clientHandler, the lines it wrote, its
\* return value, the handlers of other files it called, and the hashing it ran
Handled(cl, lines) ==
    [c |-> cl, out |-> lines, ret |-> "nil", delegated |-> <<>>, run |-> NoRun]

Forwarded(cl, handler, arg) ==
    [c |-> cl, out |-> <<>>, ret |-> "nil", delegated |-> <<<<handler, arg>>>>, run |-> NoRun]

\* handleAUTH keeping the buffered writer of the connection it replaced
handleAUTHStaleWriter(cl, tls) ==
    IF tls.err = "nil"
    THEN LET ack == writeMessage(cl.writer, "StatusAuthAccepted", "AUTH command ok", sEmpty)
             wrapped == tlsServer(cl.conn, tls.config)
         IN  Handled([cl EXCEPT !.conn = wrapped,
                                !.reader = NewReader(wrapped),
                                !.controlTLS = TRUE],
                     <<ack>>)
    ELSE Handled(cl, <<writeMessage(cl.writer, "StatusActionNotTaken", "Cannot get a TLS config", sEmpty)>>)

\* handleAUTH marking the control channel secure before it looks at the error
handleAUTHFlagFirst(cl, tls) ==
    IF tls.err = "nil"
    THEN LET ack == writeMessage(cl.writer, "StatusAuthAccepted", "AUTH command ok", sEmpty)
             wrapped == tlsServer(cl.conn, tls.config)
         IN  Handled([cl EXCEPT !.conn = wrapped,
                                !.reader = NewReader(wrapped),
                                !.writer = NewWriter(wrapped),
                                !.controlTLS = TRUE],
                     <<ack>>)
    ELSE Handled([cl EXCEPT !.controlTLS = TRUE],
                 <<writeMessage(cl.writer, "StatusActionNotTaken", "Cannot get a TLS config", sEmpty)>>)

\* handleAUTH dropping the control-secure flag when the driver has no
\* configuration to offer
handleAUTHClearsOnFailure(cl, tls) ==
    IF tls.err = "nil"
    THEN LET ack == writeMessage(cl.writer, "StatusAuthAccepted", "AUTH command ok", sEmpty)
             wrapped == tlsServer(cl.conn, tls.config)
         IN  Handled([cl EXCEPT !.conn = wrapped,
                                !.reader = NewReader(wrapped),
                                !.writer = NewWriter(wrapped),
                                !.controlTLS = TRUE],
                     <<ack>>)
    ELSE Handled([cl EXCEPT !.controlTLS = FALSE],
                 <<writeMessage(cl.writer, "StatusActionNotTaken", "Cannot get a TLS config", sEmpty)>>)

handleAUTH(cl, tls) ==
    IF tls.err = "nil"
    THEN LET ack == writeMessage(cl.writer, "StatusAuthAccepted", "AUTH command ok", sEmpty)
             wrapped == tlsServer(cl.conn, tls.config)
         IN  Handled([cl EXCEPT !.conn = wrapped,
                                !.reader = NewReader(wrapped),
                                !.writer = NewWriter(wrapped),
                                !.controlTLS = TRUE],
                     <<ack>>)
    ELSE Handled(cl, <<writeMessage(cl.writer, "StatusActionNotTaken", "Cannot get a TLS config", sEmpty)>>)

\* handlePROT comparing the parameter without regard to case
handlePROTAnyCase(cl) ==
    Handled([cl EXCEPT !.transferTLS = (ToUpper(cl.param) = <<"P">>)],
            <<writeMessage(cl.writer, "StatusOK", "OK", sEmpty)>>)

handlePROT(cl) ==
    Handled([cl EXCEPT !.transferTLS = (cl.param = <<"P">>)],
            <<writeMessage(cl.writer, "StatusOK", "OK", sEmpty)>>)

handlePBSZ(cl) == Handled(cl, <<writeMessage(cl.writer, "StatusOK", "Whatever", sEmpty)>>)

handleSYST(cl) == Handled(cl, <<writeMessage(cl.writer, "StatusSystemType", "UNIX Type: L8", sEmpty)>>)

handleSTATServer(cl) ==
    Handled(cl,
        <<multilineAnswerOpen(cl.writer, "StatusFileStatus", "Server status"),
          writeLine(cl.writer, "raw", "", "Connected to", sEmpty),
          IF cl.user # sEmpty
          THEN writeLine(cl.writer, "raw", "", "Logged in as", cl.user)
          ELSE writeLine(cl.writer, "raw", "", "Not logged in yet", sEmpty),
          writeLine(cl.writer, "raw", "", "Banner", sEmpty),
          multilineAnswerClose(cl.writer, "StatusFileStatus")>>)

handleSTAT(cl) ==
    IF cl.param = sEmpty
    THEN handleSTATServer(cl)
    ELSE Forwarded(cl, "handleSTATFile", sEmpty)

\* handleSITE comparing the subcommand as it was typed
handleSITECaseSensitive(cl, st) ==
    IF st.DisableSite
    THEN Handled(cl, <<writeMessage(cl.writer, "StatusSyntaxErrorNotRecognised",
                                    "SITE support is disabled", sEmpty)>>)
    ELSE LET spl == SplitN(cl.param, 2)
         IN  IF Len(spl) > 1 /\ spl[1] = sCHMOD THEN Forwarded(cl, "handleCHMOD", spl[2])
             ELSE IF Len(spl) > 1 /\ spl[1] = sCHOWN THEN Forwarded(cl, "handleCHOWN", spl[2])
             ELSE IF Len(spl) > 1 /\ spl[1] = sSYMLINK THEN Forwarded(cl, "handleSYMLINK", spl[2])
             ELSE Handled(cl, <<writeMessage(cl.writer, "StatusSyntaxErrorNotRecognised",
                                             "Not understood SITE subcommand", sEmpty)>>)

handleSITE(cl, st) ==
    IF st.DisableSite
    THEN Handled(cl, <<writeMessage(cl.writer, "StatusSyntaxErrorNotRecognised",
                                    "SITE support is disabled", sEmpty)>>)
    ELSE LET spl == SplitN(cl.param, 2)
         IN  IF Len(spl) > 1 /\ ToUpper(spl[1]) = sCHMOD THEN Forwarded(cl, "handleCHMOD", spl[2])
             ELSE IF Len(spl) > 1 /\ ToUpper(spl[1]) = sCHOWN THEN Forwarded(cl, "handleCHOWN", spl[2])
             ELSE IF Len(spl) > 1 /\ ToUpper(spl[1]) = sSYMLINK THEN Forwarded(cl, "handleSYMLINK", spl[2])
             ELSE Handled(cl, <<writeMessage(cl.writer, "StatusSyntaxErrorNotRecognised",
                                             "Not understood SITE subcommand", sEmpty)>>)

\* the OPTS HASH <name> branch echoing the name without storing the algorithm
optsHashSelectEchoOnly(cl, name) ==
    IF name \in DOMAIN getHashMapping
    THEN Handled(cl, <<writeMessage(cl.writer, "StatusOK", "name", name)>>)
    ELSE Handled(cl, <<writeMessage(cl.writer, "StatusSyntaxErrorParameters",
                                    "Unknown algorithm, current selection not changed", sEmpty)>>)

\* the OPTS HASH <name> branch looking the name up without regard to case
optsHashSelectAnyCase(cl, name) ==
    IF ToUpper(name) \in DOMAIN getHashMapping
    THEN Handled([cl EXCEPT !.selectedHashAlgo = getHashMapping[ToUpper(name)]],
                 <<writeMessage(cl.writer, "StatusOK", "name", name)>>)
    ELSE Handled(cl, <<writeMessage(cl.writer, "StatusSyntaxErrorParameters",
                                    "Unknown algorithm, current selection not changed", sEmpty)>>)

\* the OPTS HASH <name> branch: hashMapping[args[1]], then the assignment and the echo
optsHashSelect(cl, name) ==
    IF name \in DOMAIN getHashMapping
    THEN Handled([cl EXCEPT !.selectedHashAlgo = getHashMapping[name]],
                 <<writeMessage(cl.writer, "StatusOK", "name", name)>>)
    ELSE Handled(cl, <<writeMessage(cl.writer, "StatusSyntaxErrorParameters",
                                    "Unknown algorithm, current selection not changed", sEmpty)>>)

\* the OPTS HASH branch without a name: currentHash is one of the names the
\* reverse-lookup loop can end with
optsHashReport(cl, currentHash) ==
    Handled(cl, <<writeMessage(cl.writer, "StatusOK", "name", currentHash)>>)

\* handleOPTS taking the HASH option whether or not the extension is enabled
handleOPTSHashAlways(cl, st, currentHash) ==
    LET args == SplitN(cl.param, 2)
    IN  IF EqualFold(args[1], sUTF8)
        THEN Handled(cl, <<writeMessage(cl.writer, "StatusOK", "I'm in UTF8 only anyway", sEmpty)>>)
        ELSE IF EqualFold(args[1], sHASH)
        THEN IF Len(args) > 1
             THEN optsHashSelect(cl, args[2])
             ELSE optsHashReport(cl, currentHash)
        ELSE Handled(cl, <<writeMessage(cl.writer, "StatusSyntaxErrorNotRecognised",
                                        "Don't know this option", sEmpty)>>)

handleOPTS(cl, st, currentHash) ==
    LET args == SplitN(cl.param, 2)
    IN  IF EqualFold(args[1], sUTF8)
        THEN Handled(cl, <<writeMessage(cl.writer, "StatusOK", "I'm in UTF8 only anyway", sEmpty)>>)
        ELSE IF EqualFold(args[1], sHASH) /\ st.EnableHASH
        THEN IF Len(args) > 1
             THEN optsHashSelect(cl, args[2])
             ELSE optsHashReport(cl, currentHash)
        ELSE Handled(cl, <<writeMessage(cl.writer, "StatusSyntaxErrorNotRecognised",
                                        "Don't know this option", sEmpty)>>)

handleNOOP(cl) == Handled(cl, <<writeMessage(cl.writer, "StatusOK", "OK", sEmpty)>>)

handleCLNT(cl) ==
    Handled([cl EXCEPT !.clnt = cl.param],
            <<writeMessage(cl.writer, "StatusOK", "Good to know", sEmpty)>>)

handleTYPE(cl) ==
    IF cl.param = <<"I">>
    THEN Handled(cl, <<writeMessage(cl.writer, "StatusOK", "Type set to binary", sEmpty)>>)
    ELSE IF cl.param = <<"A">>
    THEN Handled(cl, <<writeMessage(cl.writer, "StatusOK", "ASCII isn't properly supported", sEmpty)>>)
    ELSE Handled(cl, <<writeMessage(cl.writer, "StatusSyntaxErrorNotRecognised", "Not understood", sEmpty)>>)

\* c.disconnect(): the control connection is closed
disconnect(cl) == [cl EXCEPT !.closed = TRUE]

handleQUIT(cl) ==
    Handled([disconnect(cl) EXCEPT !.reader = NilReader],
            <<writeMessage(cl.writer, "StatusClosingControlConn", "Goodbye", sEmpty)>>)

-----------------------------------------------------------------------------
(* FEAT *)

KeyOrder == <<sCRC32, sMD5, sSHA1, sSHA256, sSHA512>>

Rotated(seq, k) == [i \in 1..Len(seq) |-> seq[((i + k - 1) % Len(seq)) + 1]]

Reversed(seq) == [i \in 1..Len(seq) |-> seq[Len(seq) + 1 - i]]

\* the orders explored for "for k, v := range hashMapping": Go leaves the order
\* unspecified; the rotations of the keys and of the reversed keys are explored
MapOrders ==
    {Rotated(KeyOrder, k) : k \in 0..(Len(KeyOrder) - 1)}
    \cup {Rotated(Reversed(KeyOrder), k) : k \in 0..(Len(KeyOrder) - 1)}

\* the hashLine loop: every key, "*" after the selected one, ";" after each
RECURSIVE hashLine(_, _)
hashLine(order, selected) ==
    IF order = <<>> THEN sEmpty
    ELSE Head(order)
         \o (IF getHashMapping[Head(order)] = selected THEN <<"*">> ELSE sEmpty)
         \o <<";">>
         \o hashLine(Tail(order), selected)

nonStandardHashImpl == <<"XCRC", "MD5", "XMD5", "XSHA", "XSHA1", "XSHA256", "XSHA512">>

\* the feature list with the mark put on the name of the default algorithm
featuresDefaultMark(cl, st, tls, order) ==
    <<<<"CLNT", sEmpty>>, <<"UTF8", sEmpty>>, <<"SIZE", sEmpty>>, <<"MDTM", sEmpty>>,
      <<"REST STREAM", sEmpty>>>>
    \o (IF ~st.DisableMLSD THEN <<<<"MLSD", sEmpty>>>> ELSE <<>>)
    \o (IF ~st.DisableMLST THEN <<<<"MLST", sEmpty>>>> ELSE <<>>)
    \o (IF ~st.DisableMFMT THEN <<<<"MFMT", sEmpty>>>> ELSE <<>>)
    \o (IF tls.config # "nilConfig" /\ tls.err = "nil" THEN <<<<"AUTH TLS", sEmpty>>>> ELSE <<>>)
    \o (IF st.EnableHASH
        THEN <<<<"hashLine", hashLine(order, DefaultHashAlgo)>>>>
             \o [i \in 1..Len(nonStandardHashImpl) |-> <<nonStandardHashImpl[i], sEmpty>>]
        ELSE <<>>)

\* the feature list handleFEAT builds: <<token, text>> pairs
features(cl, st, tls, order) ==
    <<<<"CLNT", sEmpty>>, <<"UTF8", sEmpty>>, <<"SIZE", sEmpty>>, <<"MDTM", sEmpty>>,
      <<"REST STREAM", sEmpty>>>>
    \o (IF ~st.DisableMLSD THEN <<<<"MLSD", sEmpty>>>> ELSE <<>>)
    \o (IF ~st.DisableMLST THEN <<<<"MLST", sEmpty>>>> ELSE <<>>)
    \o (IF ~st.DisableMFMT THEN <<<<"MFMT", sEmpty>>>> ELSE <<>>)
    \o (IF tls.config # "nilConfig" /\ tls.err = "nil" THEN <<<<"AUTH TLS", sEmpty>>>> ELSE <<>>)
    \o (IF st.EnableHASH
        THEN <<<<"hashLine", hashLine(order, cl.selectedHashAlgo)>>>>
             \o [i \in 1..Len(nonStandardHashImpl) |-> <<nonStandardHashImpl[i], sEmpty>>]
        ELSE <<>>)

\* handleFEAT without the deferred closing line
handleFEATUnclosed(cl, st, tls, order) ==
    LET fs == features(cl, st, tls, order)
    IN  Handled(cl,
            <<writeLine(cl.writer, "open", "StatusSystemStatus", "These are my features", sEmpty)>>
            \o [i \in 1..Len(fs) |-> writeLine(cl.writer, "raw", "", fs[i][1], fs[i][2])])

handleFEAT(cl, st, tls, order) ==
    LET fs == features(cl, st, tls, order)
    IN  Handled(cl,
            <<writeLine(cl.writer, "open", "StatusSystemStatus", "These are my features", sEmpty)>>
            \o [i \in 1..Len(fs) |-> writeLine(cl.writer, "raw", "", fs[i][1], fs[i][2])]
            \o <<writeMessage(cl.writer, "StatusSystemStatus", "end", sEmpty)>>)

-----------------------------------------------------------------------------
(* Hashing *)

\* hex.EncodeToString(h.Sum(nil)) of an engine of algo fed with bytes: the digest
\* is identified by the algorithm and the bytes it was computed over
Sum(algo, bytes) == [algo |-> algo, bytes |-> bytes]

\* the switch over algo: an engine exists for the five algorithms only
newHash(algo) == algo \in AlgoSet

\* the handle obtained: GetHandle positions it at start, OpenFile at 0
getFile(ext, start) ==
    IF ext THEN [via |-> "GetHandle", pos |-> start]
    ELSE [via |-> "OpenFile", pos |-> 0]

\* the Seek left out
seekNever(start) == FALSE

\* if start > 0 { file.Seek(start, io.SeekStart) }
seekWanted(start) == start > 0

Min(a, b) == IF a < b THEN a ELSE b

\* io.CopyN(h, file, n) on a handle at pos: Copy from LimitReader(file, n), which
\* is at EOF at once when n <= 0. A read fault at file offset fault.at is met
\* when the reads reach that offset before n bytes were read. The result is what
\* was written to h and CopyN's error.
CopyN(content, pos, n, fault) ==
    LET want    == IF n <= 0 THEN 0 ELSE n
        avail   == IF pos >= Len(content) THEN 0 ELSE Len(content) - pos
        faulted == /\ fault.kind = "read"
                   /\ fault.at >= pos
                   /\ fault.at < pos + want
                   /\ fault.at <= Len(content)
        written == IF faulted THEN fault.at - pos ELSE Min(want, avail)
    IN  [bytes |-> SubSeq(content, pos + 1, pos + written),
         err   |-> IF written = n THEN "nil"
                   ELSE IF faulted THEN "read error"
                   ELSE IF written < n THEN "EOF"
                   ELSE "nil"]

\* end-start on int64 operands: the difference wraps around at 1<<63, so that
\* -1 subtracted from the largest int64 is the smallest int64. A difference of
\* less than 1<<30 in magnitude is within int64 and is left as it is
Sub64(a, b) ==
    LET d == a - b
    IN  IF d > 0 - 2^30 /\ d < 2^30 THEN d
        ELSE ((d + 2^63) % 2^64) - 2^63

\* if err != nil && err != io.EOF { return "", err }
copyFailed(err) == err # "nil" /\ err # "EOF"

computeHashForFile(ext, algo, start, end, file) ==
    LET base == [NoRun EXCEPT !.called = TRUE, !.start = start, !.end = end]
        h    == getFile(ext, start)
    IN  IF ~newHash(algo) THEN [base EXCEPT !.err = "errUnknowHash"]
        ELSE IF file.fault.kind = "open"
        THEN [base EXCEPT !.via = h.via, !.err = "open error"]
        ELSE IF seekWanted(start) /\ file.fault.kind = "seek"
        THEN \* returned before the defer of file.Close() is registered
             [base EXCEPT !.via = h.via, !.opened = 1, !.seeks = 1,
                          !.closed = 0, !.err = "seek error"]
        ELSE LET pos == IF seekWanted(start) THEN start ELSE h.pos
                 cp  == CopyN(file.content, pos, Sub64(end, start), file.fault)
                 ran == [base EXCEPT !.via = h.via, !.opened = 1,
                                     !.seeks = IF seekWanted(start) THEN 1 ELSE 0,
                                     !.closed = 1, !.fed = cp.bytes]
             IN  IF copyFailed(cp.err)
                 THEN [ran EXCEPT !.err = cp.err]
                 ELSE [ran EXCEPT !.digest = Sum(algo, cp.bytes)]

\* the regular-file check left out
IsRegularAlways(stat) == TRUE

\* info.Mode().IsRegular()
IsRegular(stat) == stat = "file"

\* whether the bounds of the parameter are parsed at all
boundsParsed(isCustomMode) == isCustomMode

handleGenericHash(cl, ext, algo, isCustomMode, in, hashName) ==
    LET args == SplitN(cl.param, 3)
        w    == cl.writer
    IN  IF in.stat = "err"
        THEN Handled(cl, <<writeMessage(w, "StatusActionNotTaken", "Stat error", cl.param)>>)
        ELSE IF ~IsRegular(in.stat)
        THEN Handled(cl, <<writeMessage(w, "StatusActionNotTakenNoFile", "is not a regular file", cl.param)>>)
        ELSE LET ps == IF boundsParsed(isCustomMode) /\ Len(args) > 1
                       THEN ParseInt(args[2]) ELSE [ok |-> TRUE, val |-> 0]
                 pe == IF boundsParsed(isCustomMode) /\ Len(args) > 2
                       THEN ParseInt(args[3]) ELSE [ok |-> TRUE, val |-> in.size]
             IN  IF ~ps.ok
                 THEN Handled(cl, <<writeMessage(w, "StatusSyntaxErrorParameters", "invalid start offset", args[2])>>)
                 ELSE IF ~pe.ok
                 THEN Handled(cl, <<writeMessage(w, "StatusSyntaxErrorParameters", "invalid end offset", args[3])>>)
                 ELSE LET run == computeHashForFile(ext, algo, ps.val, pe.val, in)
                      IN  IF run.err # "nil"
                          THEN [Handled(cl, <<writeMessage(w, "StatusActionNotTaken", "hash error", args[1])>>)
                                EXCEPT !.run = run]
                          ELSE IF isCustomMode
                          THEN [Handled(cl, <<writeDigestMessage(w, "StatusFileOK", "Computing digest",
                                                                 hashName, run.digest)>>)
                                EXCEPT !.run = run]
                          ELSE [Handled(cl, <<writeDigestMessage(w, "StatusFileStatus", "Computing digest, range",
                                                                 hashName, run.digest)>>)
                                EXCEPT !.run = run]

handleHASH(cl, ext, in, hashName) == handleGenericHash(cl, ext, cl.selectedHashAlgo, FALSE, in, hashName)

handleCRC32(cl, ext, in, hashName) == handleGenericHash(cl, ext, "HASHAlgoCRC32", TRUE, in, hashName)

handleMD5(cl, ext, in, hashName) == handleGenericHash(cl, ext, "HASHAlgoMD5", TRUE, in, hashName)

handleSHA1(cl, ext, in, hashName) == handleGenericHash(cl, ext, "HASHAlgoSHA1", TRUE, in, hashName)

handleSHA256(cl, ext, in, hashName) == handleGenericHash(cl, ext, "HASHAlgoSHA256", TRUE, in, hashName)

handleSHA512(cl, ext, in, hashName) == handleGenericHash(cl, ext, "HASHAlgoSHA512", TRUE, in, hashName)

-----------------------------------------------------------------------------
(* The commands explored *)

Join(a, b) == a \o sSpace \o b

\* the decimal text of a number below ten
Decimal(n) == <<DigitChars[n + 1]>>

Offsets == 0..(MaxFileLen + 1)

AuthParams == {<<"T","L","S">>}

ProtParams == {<<"P">>, <<"C">>, <<"p">>, sEmpty}

StatParams == {sEmpty, <<"f">>}

SiteParams ==
    {sEmpty, sCHMOD, Join(sCHMOD, <<"7"," ","f">>), Join(ToUpper(<<"c","h","m","o","d">>), sEmpty),
     Join(<<"c","h","o","w","n">>, <<"1"," ","f">>), Join(sSYMLINK, <<"a"," ","b">>),
     Join(<<"F","O","O">>, <<"x">>),
     Join(<<LongS,"y","m","l","i","n","k">>, <<"a"," ","b">>),
     Join(<<"s","y","m","l",DotlessI,"n","k">>, <<"a"," ","b">>),
     Join(<<"c","h","o","w",SmallEAcute>>, <<"1">>)}

OptsParams ==
    {sEmpty, sUTF8, <<"u","t","f","8">>, <<"F","O","O">>, sHASH, <<"h","a","s","h">>,
     Join(sHASH, sEmpty), Join(sHASH, <<"c","r","c","3","2">>), Join(sHASH, <<"S","H","A","1">>),
     Join(sHASH, Join(sMD5, <<"x">>)), Join(<<"h","a","s","h">>, sSHA1),
     <<"h","a",LongS,"h">>, Join(<<"h","a",LongS,"h">>, sMD5),
     <<"h","a","s",KelvinSign>>, <<"u","t","f",DotlessI>>}
    \cup {Join(sHASH, k) : k \in DOMAIN getHashMapping}

ClntParams == {<<"x">>}

TypeParams == {<<"I">>, <<"A">>, <<"i">>, sEmpty}

Users == {sEmpty, <<"u">>}

Paths == {<<"f">>}

StartTokens == {Decimal(n) : n \in Offsets} \cup {<<"+","1">>, <<"x">>, sEmpty, Int64Cutoff}

EndTokens == {Decimal(n) : n \in Offsets} \cup {<<"-","1">>, <<"z">>, Int64Cutoff}

HashParams ==
    Paths
    \cup {Join(f, s) : f \in Paths, s \in StartTokens}
    \cup {Join(Join(f, s), e) : f \in Paths, s \in StartTokens, e \in EndTokens}

\* a file of n bytes, each byte distinct, so that every range of it is distinct
FileOfLen(n) == [i \in 1..n |-> i]

FileContents == {FileOfLen(n) : n \in 0..MaxFileLen}

\* the faults of the driver's file: none, a failing open, a failing Seek, or a
\* Read failing at a file offset
Faults ==
    {[kind |-> k, at |-> 0] : k \in {"none", "open", "seek"}}
    \cup {[kind |-> "read", at |-> n] : n \in 0..MaxFileLen}

\* the sizes Stat reports
FileSizes == 0..MaxFileLen

\* what the driver shows a hash command: Stat failing, a directory, or a
\* regular file with the size Stat reports for the path, the bytes the handle
\* opened for the path yields, and its faults. The size and the bytes come from
\* two calls of the driver, so the size need not be the number of the bytes
DriverFiles ==
    {[stat |-> k, size |-> 0, content |-> <<>>, fault |-> [kind |-> "none", at |-> 0]] :
        k \in {"err", "dir"}}
    \cup {[stat |-> "file", size |-> sz, content |-> cnt, fault |-> f] :
            sz \in FileSizes, cnt \in FileContents, f \in Faults}

HashInputs == [param : HashParams, file : DriverFiles]

\* the hash inputs explored along with the other commands of a session: one
\* file of one byte, and a parameter for each way through the handler
SessionHashParams ==
    {<<"f">>, Join(<<"f">>, Decimal(1)), Join(<<"f">>, <<"x">>),
     Join(Join(<<"f">>, Decimal(0)), <<"z">>), Join(Join(<<"f">>, Decimal(0)), Decimal(1)),
     Join(Join(<<"f">>, Decimal(0)), Decimal(2))}

SessionHashInputs ==
    {in \in HashInputs :
        /\ in.param \in SessionHashParams
        /\ in.file.stat = "file" => Len(in.file.content) = 1 /\ in.file.fault.at = 0
        /\ in.file.stat = "file" => in.file.size \in {0, 1, 2}
        /\ in.file.size # Len(in.file.content) => in.param = <<"f">>
        /\ in.file.stat # "file" => in.param = <<"f">>}

-----------------------------------------------------------------------------
(* The state machine *)

NewClientHandler(u) ==
    [conn |-> 0, reader |-> NewReader(0), writer |-> NewWriter(0),
     controlTLS |-> FALSE, transferTLS |-> FALSE,
     selectedHashAlgo |-> DefaultHashAlgo, clnt |-> sEmpty,
     user |-> u, param |-> sEmpty, closed |-> FALSE]

\* the sessions of the server that run at once
SessionIds == {"s1", "s2"}

\* a session that waits for its next command
Idle(cl) ==
    [c |-> [cl EXCEPT !.param = sEmpty], c0 |-> [cl EXCEPT !.param = sEmpty],
     verb |-> "", pc |-> "idle", tls |-> NoTLSAnswer, out |-> <<>>]

\* the server after its sessions were accepted: the settings and the algorithm
\* set every session reads, and one clientHandler per session
NewServer ==
    [settings    |-> [EnableHASH |-> TRUE, DisableSite |-> FALSE, DisableMLSD |-> FALSE,
                      DisableMLST |-> FALSE, DisableMFMT |-> FALSE],
     hashMapping |-> getHashMapping,
     clients     |-> [s \in SessionIds |-> Idle(NewClientHandler(sEmpty))]]

\* the first line of each handler
EntryOf(verb) ==
    CASE verb = "AUTH" -> "auth26"
      [] verb = "PROT" -> "prot41"
      [] verb = "OPTS" -> "opts116"
      [] verb = "CLNT" -> "clnt161"

\* the command loop of session s read a command and calls its handler
dispatch(srv, s, verb, p) ==
    LET cl == [srv.clients[s].c EXCEPT !.param = p]
    IN  [srv EXCEPT !.clients[s] =
            [c |-> cl, c0 |-> cl, verb |-> verb, pc |-> EntryOf(verb),
             tls |-> NoTLSAnswer, out |-> <<>>]]

\* the handler of session s returned to its command loop
returned(srv, s) == [srv EXCEPT !.clients[s] = Idle(srv.clients[s].c)]

\* c.writeMessage by the handler of session s, which goes on at line next
wrote(srv, s, code, tag, arg, next) ==
    [srv EXCEPT !.clients[s].out =
                    Append(@, writeMessage(srv.clients[s].c.writer, code, tag, arg)),
                !.clients[s].pc = next]

\* handleAUTH of session s, one line at a time; tls is what GetTLSConfig returns
stepAUTH(srv, s, tls) ==
    LET f == srv.clients[s]
    IN  CASE f.pc = "auth26" ->
               [srv EXCEPT !.clients[s].tls = tls,
                           !.clients[s].pc = IF tls.err = "nil" THEN "auth27" ELSE "auth33"]
          [] f.pc = "auth27" ->
               wrote(srv, s, "StatusAuthAccepted", "AUTH command ok", sEmpty, "auth28")
          [] f.pc = "auth28" ->
               [srv EXCEPT !.clients[s].c.conn = tlsServer(f.c.conn, f.tls.config),
                           !.clients[s].pc = "auth29"]
          [] f.pc = "auth29" ->
               [srv EXCEPT !.clients[s].c.reader = NewReader(f.c.conn),
                           !.clients[s].pc = "auth30"]
          [] f.pc = "auth30" ->
               [srv EXCEPT !.clients[s].c.writer = NewWriter(f.c.conn),
                           !.clients[s].pc = "auth31"]
          [] f.pc = "auth31" ->
               [srv EXCEPT !.clients[s].c.controlTLS = TRUE,
                           !.clients[s].pc = "return"]
          [] f.pc = "auth33" ->
               wrote(srv, s, "StatusActionNotTaken", "Cannot get a TLS config", sEmpty, "return")

\* handlePROT of session s, one line at a time
stepPROT(srv, s) ==
    LET f == srv.clients[s]
    IN  CASE f.pc = "prot41" ->
               [srv EXCEPT !.clients[s].c.transferTLS = (f.c.param = <<"P">>),
                           !.clients[s].pc = "prot42"]
          [] f.pc = "prot42" ->
               wrote(srv, s, "StatusOK", "OK", sEmpty, "return")

\* c.selectedHashAlgo = value, kept as if the selection were one variable of
\* the server and not a field of each clientHandler
storeSelectionServerWide(srv, s, value) ==
    [srv EXCEPT !.clients = [t \in SessionIds |->
                                [srv.clients[t] EXCEPT !.c.selectedHashAlgo = value]],
                !.clients[s].pc = "opts129"]

\* c.selectedHashAlgo = value in handleOPTS of session s
storeSelection(srv, s, value) ==
    [srv EXCEPT !.clients[s].c.selectedHashAlgo = value,
                !.clients[s].pc = "opts129"]

\* handleOPTS of session s, one line at a time; currentHash is one of the names
\* the reverse-lookup loop can end with
stepOPTS(srv, s, currentHash) ==
    LET f    == srv.clients[s]
        args == SplitN(f.c.param, 2)
    IN  CASE f.pc = "opts116" ->
               [srv EXCEPT !.clients[s].pc =
                   IF EqualFold(args[1], sUTF8) THEN "opts118"
                   ELSE IF EqualFold(args[1], sHASH) /\ srv.settings.EnableHASH
                   THEN IF Len(args) > 1
                        THEN IF args[2] \in DOMAIN srv.hashMapping
                             THEN "opts128" ELSE "opts131"
                        ELSE "opts145"
                   ELSE "opts150"]
          [] f.pc = "opts118" ->
               wrote(srv, s, "StatusOK", "I'm in UTF8 only anyway", sEmpty, "return")
          [] f.pc = "opts128" ->
               storeSelection(srv, s, srv.hashMapping[args[2]])
          [] f.pc = "opts129" ->
               wrote(srv, s, "StatusOK", "name", args[2], "return")
          [] f.pc = "opts131" ->
               wrote(srv, s, "StatusSyntaxErrorParameters",
                     "Unknown algorithm, current selection not changed", sEmpty, "return")
          [] f.pc = "opts145" ->
               wrote(srv, s, "StatusOK", "name", currentHash, "return")
          [] f.pc = "opts150" ->
               wrote(srv, s, "StatusSyntaxErrorNotRecognised",
                     "Don't know this option", sEmpty, "return")

\* handleCLNT of session s, one line at a time
stepCLNT(srv, s) ==
    LET f == srv.clients[s]
    IN  CASE f.pc = "clnt161" ->
               [srv EXCEPT !.clients[s].c.clnt = f.c.param,
                           !.clients[s].pc = "clnt162"]
          [] f.pc = "clnt162" ->
               wrote(srv, s, "StatusOK", "Good to know", sEmpty, "return")

Settings ==
    [EnableHASH : BOOLEAN, DisableSite : BOOLEAN,
     DisableMLSD : BOOLEAN, DisableMLST : BOOLEAN, DisableMFMT : BOOLEAN]

Init ==
    /\ settings \in Settings
    /\ driverExt \in BOOLEAN
    /\ c \in {NewClientHandler(u) : u \in Users}
    /\ command = ""
    /\ readVia = 0
    /\ out = <<>>
    /\ ret = "nil"
    /\ delegated = <<>>
    /\ tlsAnswer = NoTLSAnswer
    /\ hashIn = NoHashIn
    /\ hashRun = NoRun
    /\ lastOptsName = NoName
    /\ server = NewServer

\* a command line was read: the session is open and no command is being answered
Ready == command = "" /\ ~c.closed

\* the dispatcher stored the parameter in c.param
WithParam(p) == [c EXCEPT !.param = p]

\* the handler ran to its end
Answered(verb, r, tls, in) ==
    /\ command' = verb
    /\ readVia' = c.reader
    /\ c' = r.c
    /\ out' = r.out
    /\ ret' = r.ret
    /\ delegated' = r.delegated
    /\ tlsAnswer' = tls
    /\ hashIn' = in
    /\ hashRun' = r.run
    /\ UNCHANGED <<settings, driverExt, server>>

AUTH ==
    /\ Ready
    /\ c.conn < MaxWrap
    /\ \E p \in AuthParams, tls \in TLSAnswers :
          \E r \in {handleAUTH(WithParam(p), tls)} : Answered("AUTH", r, tls, NoHashIn)
    /\ UNCHANGED lastOptsName

PROT ==
    /\ Ready
    /\ \E p \in ProtParams : \E r \in {handlePROT(WithParam(p))} : Answered("PROT", r, NoTLSAnswer, NoHashIn)
    /\ UNCHANGED lastOptsName

PBSZ ==
    /\ Ready
    /\ \E r \in {handlePBSZ(WithParam(sEmpty))} : Answered("PBSZ", r, NoTLSAnswer, NoHashIn)
    /\ UNCHANGED lastOptsName

SYST ==
    /\ Ready
    /\ \E r \in {handleSYST(WithParam(sEmpty))} : Answered("SYST", r, NoTLSAnswer, NoHashIn)
    /\ UNCHANGED lastOptsName

STAT ==
    /\ Ready
    /\ \E p \in StatParams : \E r \in {handleSTAT(WithParam(p))} : Answered("STAT", r, NoTLSAnswer, NoHashIn)
    /\ UNCHANGED lastOptsName

SITE ==
    /\ Ready
    /\ \E p \in SiteParams :
          \E r \in {handleSITE(WithParam(p), settings)} : Answered("SITE", r, NoTLSAnswer, NoHashIn)
    /\ UNCHANGED lastOptsName

OPTS ==
    /\ Ready
    /\ \E p \in OptsParams, currentHash \in ReverseLookup(c.selectedHashAlgo) :
          \E r \in {handleOPTS(WithParam(p), settings, currentHash)} :
              /\ Answered("OPTS", r, NoTLSAnswer, NoHashIn)
              /\ lastOptsName' = IF /\ r.out[1].code = "StatusOK"
                                     /\ EqualFold(SplitN(p, 2)[1], sHASH)
                                     /\ Len(SplitN(p, 2)) > 1
                                  THEN SplitN(p, 2)[2]
                                  ELSE lastOptsName

NOOP ==
    /\ Ready
    /\ \E r \in {handleNOOP(WithParam(sEmpty))} : Answered("NOOP", r, NoTLSAnswer, NoHashIn)
    /\ UNCHANGED lastOptsName

CLNT ==
    /\ Ready
    /\ \E p \in ClntParams : \E r \in {handleCLNT(WithParam(p))} : Answered("CLNT", r, NoTLSAnswer, NoHashIn)
    /\ UNCHANGED lastOptsName

FEAT ==
    /\ Ready
    /\ \E tls \in TLSAnswers, order \in MapOrders :
          \E r \in {handleFEAT(WithParam(sEmpty), settings, tls, order)} : Answered("FEAT", r, tls, NoHashIn)
    /\ UNCHANGED lastOptsName

TYPE ==
    /\ Ready
    /\ \E p \in TypeParams : \E r \in {handleTYPE(WithParam(p))} : Answered("TYPE", r, NoTLSAnswer, NoHashIn)
    /\ UNCHANGED lastOptsName

QUIT ==
    /\ Ready
    /\ \E r \in {handleQUIT(WithParam(sEmpty))} : Answered("QUIT", r, NoTLSAnswer, NoHashIn)
    /\ UNCHANGED lastOptsName

HASH(inputs) ==
    /\ Ready
    /\ \E in \in inputs, hashName \in ReverseLookup(c.selectedHashAlgo) :
          \E r \in {handleHASH(WithParam(in.param), driverExt, in.file, hashName)} :
              Answered("HASH", r, NoTLSAnswer, in.file)
    /\ UNCHANGED lastOptsName

XCRC(inputs) ==
    /\ Ready
    /\ \E in \in inputs, hashName \in ReverseLookup("HASHAlgoCRC32") :
          \E r \in {handleCRC32(WithParam(in.param), driverExt, in.file, hashName)} :
              Answered("XCRC", r, NoTLSAnswer, in.file)
    /\ UNCHANGED lastOptsName

MD5(inputs) ==
    /\ Ready
    /\ \E in \in inputs, hashName \in ReverseLookup("HASHAlgoMD5") :
          \E r \in {handleMD5(WithParam(in.param), driverExt, in.file, hashName)} :
              Answered("MD5", r, NoTLSAnswer, in.file)
    /\ UNCHANGED lastOptsName

XSHA1(inputs) ==
    /\ Ready
    /\ \E in \in inputs, hashName \in ReverseLookup("HASHAlgoSHA1") :
          \E r \in {handleSHA1(WithParam(in.param), driverExt, in.file, hashName)} :
              Answered("XSHA1", r, NoTLSAnswer, in.file)
    /\ UNCHANGED lastOptsName

XSHA256(inputs) ==
    /\ Ready
    /\ \E in \in inputs, hashName \in ReverseLookup("HASHAlgoSHA256") :
          \E r \in {handleSHA256(WithParam(in.param), driverExt, in.file, hashName)} :
              Answered("XSHA256", r, NoTLSAnswer, in.file)
    /\ UNCHANGED lastOptsName

XSHA512(inputs) ==
    /\ Ready
    /\ \E in \in inputs, hashName \in ReverseLookup("HASHAlgoSHA512") :
          \E r \in {handleSHA512(WithParam(in.param), driverExt, in.file, hashName)} :
              Answered("XSHA512", r, NoTLSAnswer, in.file)
    /\ UNCHANGED lastOptsName

\* the reply reached the peer and the session waits for the next command line;
\* c.param is dead until that line is parsed and is cleared here
AwaitCommand ==
    /\ command # ""
    /\ ~c.closed
    /\ command' = ""
    /\ c' = [c EXCEPT !.param = sEmpty]
    /\ readVia' = c.reader
    /\ out' = <<>>
    /\ ret' = "nil"
    /\ delegated' = <<>>
    /\ tlsAnswer' = NoTLSAnswer
    /\ hashIn' = NoHashIn
    /\ hashRun' = NoRun
    /\ UNCHANGED <<settings, driverExt, lastOptsName, server>>

Next ==
    \/ AUTH \/ PROT \/ PBSZ \/ SYST \/ STAT \/ SITE \/ OPTS \/ NOOP \/ CLNT \/ FEAT
    \/ TYPE \/ QUIT
    \/ HASH(SessionHashInputs)
    \/ XCRC(SessionHashInputs)
    \/ MD5(SessionHashInputs)
    \/ XSHA1(SessionHashInputs)
    \/ XSHA256(SessionHashInputs)
    \/ XSHA512(SessionHashInputs)
    \/ AwaitCommand

Spec == Init /\ [][Next]_vars

\* the hashing subsystem alone, over every file, fault and range of the bounds
InitHash ==
    /\ Init
    /\ settings = [EnableHASH |-> TRUE, DisableSite |-> FALSE, DisableMLSD |-> FALSE,
                   DisableMLST |-> FALSE, DisableMFMT |-> FALSE]
    /\ c.user = sEmpty

NextHash ==
    \/ OPTS
    \/ HASH(HashInputs)
    \/ XCRC(HashInputs)
    \/ MD5(HashInputs)
    \/ XSHA1(HashInputs)
    \/ XSHA256(HashInputs)
    \/ XSHA512(HashInputs)
    \/ AwaitCommand

SpecHash == InitHash /\ [][NextHash]_vars

\* the commands the sessions that run at once are given
MultiOptsParams ==
    {sUTF8, sHASH, Join(sHASH, sMD5), Join(sHASH, <<"m","d","5">>), <<"F","O","O">>}

MultiProtParams == {<<"P">>, <<"C">>}

\* several sessions of one server: the server runs the command loop of each
\* session in a goroutine of its own, so the lines of the handlers of different
\* sessions interleave in any order, while the handlers of one session run one
\* after the other
InitMulti ==
    /\ settings = NewServer.settings
    /\ driverExt = FALSE
    /\ c = NewClientHandler(sEmpty)
    /\ command = ""
    /\ readVia = 0
    /\ out = <<>>
    /\ ret = "nil"
    /\ delegated = <<>>
    /\ tlsAnswer = NoTLSAnswer
    /\ hashIn = NoHashIn
    /\ hashRun = NoRun
    /\ lastOptsName = NoName
    /\ server = NewServer

OneSession ==
    UNCHANGED <<settings, driverExt, c, command, readVia, out, ret, delegated,
                tlsAnswer, hashIn, hashRun, lastOptsName>>

Dispatch ==
    /\ \E s \in SessionIds :
          /\ server.clients[s].pc = "idle"
          /\ \/ /\ server.clients[s].c.conn < MaxWrap
                /\ \E p \in AuthParams : server' = dispatch(server, s, "AUTH", p)
             \/ \E p \in MultiProtParams : server' = dispatch(server, s, "PROT", p)
             \/ \E p \in MultiOptsParams : server' = dispatch(server, s, "OPTS", p)
             \/ \E p \in ClntParams : server' = dispatch(server, s, "CLNT", p)
    /\ OneSession

StepAUTH ==
    /\ \E s \in SessionIds :
          /\ server.clients[s].verb = "AUTH"
          /\ server.clients[s].pc # "return"
          /\ \E tls \in TLSAnswers : server' = stepAUTH(server, s, tls)
    /\ OneSession

StepPROT ==
    /\ \E s \in SessionIds :
          /\ server.clients[s].verb = "PROT"
          /\ server.clients[s].pc # "return"
          /\ server' = stepPROT(server, s)
    /\ OneSession

StepOPTS ==
    /\ \E s \in SessionIds :
          /\ server.clients[s].verb = "OPTS"
          /\ server.clients[s].pc # "return"
          /\ \E currentHash \in {k \in DOMAIN server.hashMapping :
                                   server.hashMapping[k] = server.clients[s].c.selectedHashAlgo} :
                server' = stepOPTS(server, s, currentHash)
    /\ OneSession

StepCLNT ==
    /\ \E s \in SessionIds :
          /\ server.clients[s].verb = "CLNT"
          /\ server.clients[s].pc # "return"
          /\ server' = stepCLNT(server, s)
    /\ OneSession

Return ==
    /\ \E s \in SessionIds :
          /\ server.clients[s].pc = "return"
          /\ server' = returned(server, s)
    /\ OneSession

NextMulti ==
    \/ Dispatch
    \/ StepAUTH \/ StepPROT \/ StepOPTS \/ StepCLNT
    \/ Return

SpecMulti == InitMulti /\ [][NextMulti]_vars

-----------------------------------------------------------------------------
(* Vocabulary of the properties *)

CustomVerbs == {"XCRC", "MD5", "XSHA1", "XSHA256", "XSHA512"}

HashVerbs == CustomVerbs \cup {"HASH"}

\* the algorithm a hash command computes
AlgoOfVerb(verb) ==
    CASE verb = "XCRC" -> "HASHAlgoCRC32"
      [] verb = "MD5" -> "HASHAlgoMD5"
      [] verb = "XSHA1" -> "HASHAlgoSHA1"
      [] verb = "XSHA256" -> "HASHAlgoSHA256"
      [] verb = "XSHA512" -> "HASHAlgoSHA512"
      [] OTHER -> c.selectedHashAlgo

\* the tokens of the parameter of the hash command being answered
HashArgs == SplitN(c.param, 3)

\* the command being answered gave a start and an end, and both are numbers
ExplicitBounds ==
    /\ Len(HashArgs) = 3
    /\ ParseInt(HashArgs[2]).ok
    /\ ParseInt(HashArgs[3]).ok

GivenStart == ParseInt(HashArgs[2]).val

GivenEnd == ParseInt(HashArgs[3]).val

\* the command being answered gave a bound that is not a number
MalformedBound ==
    \/ Len(HashArgs) > 1 /\ ~ParseInt(HashArgs[2]).ok
    \/ Len(HashArgs) > 2 /\ ~ParseInt(HashArgs[3]).ok

\* the reply carries a digest
CarriesDigest == \E i \in 1..Len(out) : out[i].digest # NoDigest

ErrorCodes ==
    {"StatusActionNotTaken", "StatusActionNotTakenNoFile", "StatusSyntaxErrorParameters",
     "StatusSyntaxErrorNotRecognised"}

-----------------------------------------------------------------------------
(* Claims *)

\* C1: every file handle computeHashForFile obtained from the driver is closed
\* exactly once when it returns, on every exit path. The code returns from a
\* failed Seek before the defer of Close is registered, so this is violated.
C1_HandleClosedOnce == hashRun.called => hashRun.closed = hashRun.opened

\* C2: a per-algorithm hash command on a regular file of size S with explicit
\* numeric bounds where end < start or end > S replies with an error and
\* never with a digest. The code ignores io.EOF and a negative count, so this
\* is violated.
C2_BadRangeIsError ==
    (/\ command \in CustomVerbs
     /\ hashIn.stat = "file"
     /\ ExplicitBounds
     /\ (GivenEnd < GivenStart \/ GivenEnd > Len(hashIn.content)))
    => (/\ Len(out) = 1
        /\ out[1].code \in ErrorCodes
        /\ ~CarriesDigest)

\* C3: computeHashForFile returns a digest only when exactly end-start bytes
\* were streamed into the digest engine, and returns an error and no digest
\* when the stream ended earlier or a read failed. The code treats an early
\* end of stream as success, so this is violated.
C3_DigestOnlyOfFullRange ==
    hashRun.called =>
        /\ hashRun.digest # NoDigest => Len(hashRun.fed) = hashRun.end - hashRun.start
        /\ Len(hashRun.fed) # hashRun.end - hashRun.start
             => hashRun.err # "nil" /\ hashRun.digest = NoDigest

\* the bytes of the file at positions [start, end)
Slice(content, start, end) == SubSeq(content, start + 1, end)

ValidRange ==
    /\ 0 <= hashRun.start
    /\ hashRun.start <= hashRun.end
    /\ hashRun.end <= Len(hashIn.content)

\* C4: for every algorithm and every valid range 0 <= start <= end <= size, the
\* bytes computeHashForFile feeds to the digest engine are the file's bytes at
\* [start, end), with a driver offering GetHandle and with one offering only
\* OpenFile: whenever it returns a digest, and it does whenever the driver does
\* not fail, that digest is the digest of the independently sliced bytes.
C4_RangeExact ==
    (command \in HashVerbs /\ hashRun.called /\ ValidRange) =>
        /\ hashRun.via = (IF driverExt THEN "GetHandle" ELSE "OpenFile")
        /\ hashIn.fault.kind = "none" => hashRun.err = "nil"
        /\ hashRun.err = "nil" =>
              /\ hashRun.fed = Slice(hashIn.content, hashRun.start, hashRun.end)
              /\ hashRun.digest
                   = Sum(AlgoOfVerb(command), Slice(hashIn.content, hashRun.start, hashRun.end))
              /\ CarriesDigest /\ out[1].digest = hashRun.digest

C4_Witness ==
    /\ command = "XSHA1"
    /\ ~driverExt
    /\ Len(hashIn.content) = 3
    /\ hashRun.start = 1 /\ hashRun.end = 2
    /\ hashRun.digest = Sum("HASHAlgoSHA1", <<2>>)

\* C5: a successful AUTH writes exactly one reply, the acknowledgment, through
\* the connection it then wraps, and returns with the reader and the writer both
\* bound to the wrapped connection; every later command is read through, and
\* every later reply written through, the wrapped connection the session holds
\* at that moment, never through a buffer bound to a connection it replaced.
C5_AuthOrdering ==
    /\ ~c.closed => c.reader = c.conn /\ c.writer = c.conn
    /\ (command = "AUTH" /\ tlsAnswer.err = "nil") =>
          /\ Len(out) = 1
          /\ out[1].code = "StatusAuthAccepted"
          /\ tlsServer(out[1].via, tlsAnswer.config) = c.conn
          /\ readVia = out[1].via
          /\ c.controlTLS
    /\ (c.controlTLS /\ command # "" /\ ~(command = "AUTH" /\ tlsAnswer.err = "nil")) =>
          /\ c.conn # 0
          /\ readVia = c.conn
          /\ \A i \in 1..Len(out) : out[i].via = c.conn

C5_Witness ==
    /\ command = "NOOP"
    /\ c.controlTLS
    /\ c.conn = 1
    /\ readVia = 1
    /\ Len(out) = 1 /\ out[1].via = 1

\* C6: with the hash extension enabled, OPTS HASH <name> for a name of the
\* algorithm set stores that algorithm and replies OK with the name, and an
\* OPTS HASH without argument replies OK with the name of the latest accepted
\* OPTS HASH <name>, whatever commands came in between.
C6_OptsHashRoundTrip ==
    (command = "OPTS" /\ settings.EnableHASH /\ EqualFold(SplitN(c.param, 2)[1], sHASH)) =>
        /\ (Len(SplitN(c.param, 2)) > 1 /\ SplitN(c.param, 2)[2] \in DOMAIN getHashMapping) =>
              /\ Len(out) = 1
              /\ out[1].code = "StatusOK"
              /\ out[1].arg = SplitN(c.param, 2)[2]
              /\ c.selectedHashAlgo = getHashMapping[SplitN(c.param, 2)[2]]
        /\ (Len(SplitN(c.param, 2)) = 1 /\ lastOptsName # NoName) =>
              /\ Len(out) = 1
              /\ out[1].code = "StatusOK"
              /\ out[1].arg = lastOptsName

C6_Witness ==
    /\ command = "OPTS"
    /\ c.param = sHASH
    /\ lastOptsName = sMD5
    /\ out[1].arg = sMD5
    /\ c.clnt # sEmpty

\* an OPTS HASH with a second token that is no name of the algorithm set
UnknownHashName(p) ==
    /\ EqualFold(SplitN(p, 2)[1], sHASH)
    /\ Len(SplitN(p, 2)) > 1
    /\ SplitN(p, 2)[2] \notin DOMAIN getHashMapping

\* C7: with the hash extension enabled, OPTS HASH <name> for a name outside the
\* algorithm set (a name in another letter case and an empty name included)
\* replies with the parameter-syntax-error status and leaves the negotiated
\* algorithm as it was before the command.
C7_UnknownNameKeepsAlgo ==
    [][(command' = "OPTS" /\ settings.EnableHASH /\ UnknownHashName(c'.param)) =>
          /\ Len(out') = 1
          /\ out'[1].code = "StatusSyntaxErrorParameters"
          /\ c'.selectedHashAlgo = c.selectedHashAlgo]_vars

C7_Witness ==
    /\ command = "OPTS"
    /\ c.param = Join(sHASH, <<"c","r","c","3","2">>)
    /\ out[1].code = "StatusSyntaxErrorParameters"
    /\ c.selectedHashAlgo = "HASHAlgoMD5"

ReplyingVerbs ==
    {"AUTH", "PROT", "PBSZ", "SYST", "STAT", "SITE", "OPTS", "NOOP", "CLNT", "FEAT", "TYPE"}
    \cup HashVerbs

\* C8: every handler of this file, unless it forwarded the command to a handler
\* of another file (STAT with a parameter, a recognised SITE subcommand), has
\* written exactly one protocol reply when it returns (one single line, or one
\* block with one opening and one closing line) and returns no error.
C8_ExactlyOneReply ==
    (command \in ReplyingVerbs /\ delegated = <<>>) =>
        /\ ReplyCount(out) = 1
        /\ out[1].form \in {"final", "open"}
        /\ out[Len(out)].form = "final"
        /\ out[1].form = "final" => Len(out) = 1
        /\ ret = "nil"

C8_Witness ==
    /\ command = "FEAT"
    /\ Len(out) > 3
    /\ out[1].form = "open"
    /\ ReplyCount(out) = 1

\* C9: an AUTH for which the driver returns an error replies with the
\* action-not-taken status and leaves the connection, the reader, the writer,
\* the control-secure flag, the data-protection flag and the negotiated
\* algorithm as they were.
C9_AuthFailureKeepsState ==
    [][(command' = "AUTH" /\ tlsAnswer'.err # "nil") =>
          /\ Len(out') = 1
          /\ out'[1].code = "StatusActionNotTaken"
          /\ c'.conn = c.conn
          /\ c'.reader = c.reader
          /\ c'.writer = c.writer
          /\ c'.controlTLS = c.controlTLS
          /\ c'.transferTLS = c.transferTLS
          /\ c'.selectedHashAlgo = c.selectedHashAlgo
          /\ c' = [c EXCEPT !.param = c'.param]]_vars

C9_Witness ==
    /\ command = "AUTH"
    /\ tlsAnswer.err = "err"
    /\ out[1].code = "StatusActionNotTaken"
    /\ ~c.controlTLS /\ c.conn = 0
    /\ c.transferTLS
    /\ c.selectedHashAlgo = "HASHAlgoCRC32"

\* C10: a hash command asks the driver for a file handle (GetHandle or
\* OpenFile) only after Stat succeeded on a regular file and, for the commands
\* that take bounds, every bound given parsed; a failing Stat is answered with
\* action-not-taken, a target that is no regular file with the no-such-file
\* status, a malformed bound with the parameter-syntax-error status, each
\* without a handle being asked for. (HASH takes no bounds: the tokens after
\* its path are not read.)
C10_PreflightBeforeOpen ==
    command \in HashVerbs =>
        /\ hashRun.via # "none" =>
              /\ hashIn.stat = "file"
              /\ command \in CustomVerbs => ~MalformedBound
        /\ hashIn.stat = "err" =>
              /\ Len(out) = 1 /\ out[1].code = "StatusActionNotTaken"
              /\ ~hashRun.called /\ hashRun.via = "none"
        /\ hashIn.stat = "dir" =>
              /\ Len(out) = 1 /\ out[1].code = "StatusActionNotTakenNoFile"
              /\ ~hashRun.called /\ hashRun.via = "none"
        /\ (hashIn.stat = "file" /\ command \in CustomVerbs /\ MalformedBound) =>
              /\ Len(out) = 1 /\ out[1].code = "StatusSyntaxErrorParameters"
              /\ ~hashRun.called /\ hashRun.via = "none"

C10_Witness ==
    /\ command = "XSHA256"
    /\ hashIn.stat = "file"
    /\ Len(HashArgs) = 3 /\ ParseInt(HashArgs[2]).ok /\ ~ParseInt(HashArgs[3]).ok
    /\ out[1].code = "StatusSyntaxErrorParameters"
    /\ hashRun.via = "none"

\* a handler ran to its end in this step
HandlerStep == command = "" /\ command' # ""

\* what the claim calls the state of a session
SessionState(cl) ==
    <<cl.selectedHashAlgo, cl.controlTLS, cl.transferTLS, cl.clnt, cl.conn, cl.reader, cl.writer>>

\* the sessions something of which differs between this state and the next
Touched == {s \in SessionIds : server'.clients[s] # server.clients[s]}

\* the handler of session s has returned having done to the clientHandler and
\* written to the wire what it does when no other session runs
RanAsAlone(s) ==
    LET f == server.clients[s]
        r == [c |-> f.c, out |-> f.out]
        same(h) == h.c = r.c /\ h.out = r.out
    IN  CASE f.verb = "AUTH" -> same(handleAUTH(f.c0, f.tls))
          [] f.verb = "PROT" -> same(handlePROT(f.c0))
          [] f.verb = "CLNT" -> same(handleCLNT(f.c0))
          [] f.verb = "OPTS" ->
               \E cur \in ReverseLookup(f.c0.selectedHashAlgo) :
                   same(handleOPTS(f.c0, server.settings, cur))

\* C11: with two sessions whose handlers interleave line by line in any order,
\* no step of one session changes anything of the other (its negotiated
\* algorithm, control-secure flag, data-protection flag, client name and
\* transport included), the state of a session changes only while its own
\* handler runs, the settings and the algorithm set are the same before and
\* after every step, and every handler returns having done what it does when
\* its session is the only one.
C11_SessionsIndependent ==
    /\ [](\A s \in SessionIds : server.clients[s].pc = "return" => RanAsAlone(s))
    /\ [][/\ Cardinality(Touched) <= 1
          /\ server'.settings = server.settings
          /\ server'.hashMapping = server.hashMapping
          /\ \A s \in SessionIds :
                SessionState(server'.clients[s].c) # SessionState(server.clients[s].c)
                    => server.clients[s].pc \notin {"idle", "return"}]_vars

\* one session is in the middle of its upgrade, its connection wrapped and its
\* reader not yet rebound, while the other has just stored its selection
C11_Witness ==
    /\ server.clients["s1"].pc = "auth29"
    /\ server.clients["s1"].c.conn = 1
    /\ server.clients["s1"].c.reader = 0
    /\ server.clients["s1"].c.selectedHashAlgo = DefaultHashAlgo
    /\ server.clients["s2"].pc = "opts129"
    /\ server.clients["s2"].c.selectedHashAlgo = "HASHAlgoMD5"
    /\ server.clients["s2"].c.transferTLS
    /\ ~server.clients["s2"].c.controlTLS

\* the AUTH handler took its success branch in this step
AuthSucceeds == HandlerStep /\ command' = "AUTH" /\ tlsAnswer'.err = "nil"

\* C12: the control-secure flag is monotonic: it starts false, no step sets it
\* back to false, it becomes true only in a step in which AUTH succeeds, and
\* every step in which AUTH succeeds leaves it true; so it is true exactly
\* when at least one AUTH has succeeded.
C12_ControlTLSMonotonic ==
    /\ ~c.controlTLS
    /\ [][/\ c.controlTLS => c'.controlTLS
          /\ (~c.controlTLS /\ c'.controlTLS) => AuthSucceeds
          /\ AuthSucceeds => c'.controlTLS]_vars

\* a failed AUTH after a successful one: the flag stays true
C12_Witness ==
    /\ command = "AUTH"
    /\ tlsAnswer.err = "err"
    /\ c.controlTLS
    /\ c.conn = 1

\* the SITE subcommands and the handler each one is forwarded to
SiteHandlers ==
    {<<sCHMOD, "handleCHMOD">>, <<sCHOWN, "handleCHOWN">>, <<sSYMLINK, "handleSYMLINK">>}

\* a separator follows the first token of the parameter
SiteHasRemainder(p) == \E i \in 1..Len(p) : p[i] = " "

\* the position of the first separator of a parameter that has one
SiteFirstSpace(p) ==
    CHOOSE i \in 1..Len(p) : p[i] = " " /\ \A j \in 1..(i - 1) : p[j] # " "

SiteToken(p) == SubSeq(p, 1, SiteFirstSpace(p) - 1)

SiteRemainder(p) == SubSeq(p, SiteFirstSpace(p) + 1, Len(p))

\* two tokens differ in letter case at most: they have the same length and
\* every rune of one has the upper case of the rune of the other at its place
SameUpToCase(a, b) ==
    /\ Len(a) = Len(b)
    /\ \A i \in 1..Len(a) : UpperChar(a[i]) = UpperChar(b[i])

\* the dispatcher answered, once, that the command is not recognised
SiteNotRecognised ==
    /\ delegated = <<>>
    /\ Len(out) = 1
    /\ out[1].form = "final"
    /\ out[1].code = "StatusSyntaxErrorNotRecognised"

\* C13: SITE with the toggle disabled answers not-recognised and invokes no
\* subcommand handler; with it enabled a handler is invoked only if the first
\* token is CHMOD, CHOWN or SYMLINK in any letter case (a long s or a dotless
\* i, whose upper case is S or I, included) and a remainder follows
\* it, and then exactly that one handler is invoked with the remainder and the
\* dispatcher writes no reply of its own; otherwise the answer is
\* not-recognised and no handler is invoked.
C13_SiteDispatch ==
    command = "SITE" =>
        IF settings.DisableSite
        THEN SiteNotRecognised
        ELSE IF /\ SiteHasRemainder(c.param)
                /\ \E h \in SiteHandlers : SameUpToCase(SiteToken(c.param), h[1])
             THEN /\ out = <<>>
                  /\ Len(delegated) = 1
                  /\ \E h \in SiteHandlers :
                        /\ SameUpToCase(SiteToken(c.param), h[1])
                        /\ delegated[1] = <<h[2], SiteRemainder(c.param)>>
             ELSE SiteNotRecognised

C13_Witness ==
    /\ command = "SITE"
    /\ ~settings.DisableSite
    /\ c.param = <<"c","h","o","w","n"," ","1"," ","f">>
    /\ out = <<>>
    /\ delegated = << <<"handleCHOWN", <<"1"," ","f">> >> >>

\* C14: the data-protection flag is false at first and after every step equals
\* whether the parameter of the most recent PROT was exactly "P": PROT sets it
\* so, answers OK whatever the parameter and whether or not AUTH has succeeded,
\* and leaves the control-secure flag and the transport as they were; no other
\* command, AUTH included, changes the data-protection flag.
C14_ProtFrame ==
    /\ ~c.transferTLS
    /\ [][HandlerStep =>
            IF command' = "PROT"
            THEN /\ c'.transferTLS = (c'.param = <<"P">>)
                 /\ Len(out') = 1
                 /\ out'[1].code = "StatusOK"
                 /\ c'.controlTLS = c.controlTLS
                 /\ c'.conn = c.conn
            ELSE c'.transferTLS = c.transferTLS]_vars

\* PROT P accepted on a channel AUTH never secured
C14_Witness ==
    /\ command = "PROT"
    /\ c.param = <<"P">>
    /\ c.transferTLS
    /\ ~c.controlTLS
    /\ out[1].code = "StatusOK"

\* C15: computeHashForFile calls Seek only on a handle it opened with the
\* generic OpenFile and only when start > 0; on a driver that provides the
\* transfer extension (GetHandle) it makes no Seek call.
C15_SeekOnlyOnGenericPath ==
    hashRun.called =>
        /\ hashRun.seeks > 0 => (hashRun.via = "OpenFile" /\ hashRun.start > 0)
        /\ driverExt => hashRun.seeks = 0

\* an OPTS HASH with a second token that is a name of the algorithm set
SupportedHashName(p) ==
    /\ EqualFold(SplitN(p, 2)[1], sHASH)
    /\ Len(SplitN(p, 2)) > 1
    /\ SplitN(p, 2)[2] \in DOMAIN getHashMapping

\* C16: the negotiated algorithm is always a member of the algorithm set, and
\* it changes only in a step that runs OPTS HASH <name> with a supported name
\* while the hash extension is enabled, to the algorithm of that name; every
\* other command leaves it as it was.
C16_AlgoFrame ==
    /\ [](c.selectedHashAlgo \in AlgoSet)
    /\ [][c'.selectedHashAlgo # c.selectedHashAlgo =>
            /\ HandlerStep
            /\ command' = "OPTS"
            /\ settings.EnableHASH
            /\ SupportedHashName(c'.param)
            /\ c'.selectedHashAlgo = getHashMapping[SplitN(c'.param, 2)[2]]]_vars

\* a hash command run after a selection: the selection is still the negotiated one
C16_Witness ==
    /\ command = "HASH"
    /\ settings.EnableHASH
    /\ lastOptsName = sMD5
    /\ c.selectedHashAlgo = "HASHAlgoMD5"

\* the positions of the ';' of a line
SemiPos(line) == {i \in 1..Len(line) : line[i] = ";"}

\* the entry that the ';' at position i ends
EntryAt(line, i) ==
    LET before == {j \in SemiPos(line) : j < i}
        from   == IF before = {} THEN 1
                  ELSE (CHOOSE j \in before : \A k \in before : k <= j) + 1
    IN  SubSeq(line, from, i - 1)

Marked(entry) == entry # <<>> /\ entry[Len(entry)] = "*"

Unmarked(entry) == IF Marked(entry) THEN SubSeq(entry, 1, Len(entry) - 1) ELSE entry

\* the body lines of the FEAT reply that are the composite line
CompositeLines == {i \in 1..Len(out) : out[i].form = "raw" /\ out[i].tag = "hashLine"}

\* the body lines of the FEAT reply that are a legacy hash command token
LegacyLines ==
    {i \in 1..Len(out) :
        /\ out[i].form = "raw"
        /\ \E j \in 1..Len(nonStandardHashImpl) : out[i].tag = nonStandardHashImpl[j]}

\* C17: with the hash extension enabled the FEAT reply has one composite line;
\* it lists every name of the algorithm set exactly once, each followed by ';',
\* and marks with '*' exactly one name, which is the name OPTS HASH without an
\* argument reports in that state and the name of the negotiated algorithm,
\* the one every digest of HASH is computed with; with the extension disabled the FEAT reply has neither
\* the composite line nor a legacy hash command token.
C17_FeatHashLine ==
    /\ command = "FEAT" =>
        IF settings.EnableHASH
        THEN /\ Cardinality(CompositeLines) = 1
             /\ \A i \in CompositeLines :
                  LET line   == out[i].arg
                      marked == {p \in SemiPos(line) : Marked(EntryAt(line, p))}
                  IN  /\ line # <<>> /\ line[Len(line)] = ";"
                      /\ Cardinality(SemiPos(line)) = Cardinality(DOMAIN getHashMapping)
                      /\ \A k \in DOMAIN getHashMapping :
                            Cardinality({p \in SemiPos(line) :
                                            Unmarked(EntryAt(line, p)) = k}) = 1
                      /\ Cardinality(marked) = 1
                      /\ \A p \in marked :
                            LET name == Unmarked(EntryAt(line, p))
                            IN  /\ name \in DOMAIN getHashMapping
                                /\ getHashMapping[name] = c.selectedHashAlgo
                                /\ \A cur \in ReverseLookup(c.selectedHashAlgo) :
                                      handleOPTS([c EXCEPT !.param = sHASH], settings, cur).out
                                          = <<writeMessage(c.writer, "StatusOK", "name", name)>>
        ELSE CompositeLines = {} /\ LegacyLines = {}
    /\ (command = "HASH" /\ hashRun.digest # NoDigest) =>
            hashRun.digest.algo = c.selectedHashAlgo

\* FEAT after OPTS HASH MD5, the map ranged over from MD5 on
C17_Witness ==
    /\ command = "FEAT"
    /\ settings.EnableHASH
    /\ c.selectedHashAlgo = "HASHAlgoMD5"
    /\ \E i \in CompositeLines : SubSeq(out[i].arg, 1, Len(sMD5) + 2) = sMD5 \o <<"*", ";">>

\* C18: the transport of the session is the raw accepted connection or exactly
\* one TLS wrapper around it: an AUTH on a control channel that is already
\* secure does not wrap the wrapped transport again.
C18_SingleWrap ==
    /\ c.conn \in {0, tlsServer(0, "tlsConfig")}
    /\ c.controlTLS <=> c.conn = tlsServer(0, "tlsConfig")

\* a FEAT of this session against the driver answer tls lists AUTH TLS
FeatListsAuthTLS(tls) ==
    \E order \in MapOrders :
        LET lines == handleFEAT(c, settings, tls, order).out
        IN  \E i \in 1..Len(lines) : lines[i].form = "raw" /\ lines[i].tag = "AUTH TLS"

\* C19: FEAT and AUTH agree on the availability of TLS: whatever GetTLSConfig
\* returned (a configuration or none, an error or none), AUTH has upgraded the
\* connection if and only if a FEAT given the same answer lists AUTH TLS, and
\* AUTH has not upgraded the connection with a nil configuration.
C19_FeatAuthAgree ==
    command = "AUTH" =>
        LET upgraded == c.reader # readVia
        IN  /\ upgraded <=> FeatListsAuthTLS(tlsAnswer)
            /\ upgraded => tlsAnswer.config # "nilConfig"

====
